---- MODULE Spec2Model ----
(***************************************************************************)
(* Model of InMemDiskANNAdapter                                            *)
(* (minigu/storage/src/tp/vector_index/in_mem_diskann.rs): the NodeId <->  *)
(* slot mapping kept around an inner DiskANN index, with build, insert,    *)
(* soft_delete and the search paths.                                       *)
(*                                                                         *)
(* Vector contents never reach the adapter's own state: a batch is         *)
(* modelled by the sequence of its NodeIds, and the distances the search   *)
(* paths compute from the contents are inputs of the search actions.       *)
(* The inner index is an external library; it is modelled by the contract  *)
(* the adapter relies on (slot = position, soft-deleted slots are not      *)
(* returned by search) and every call into it may succeed or fail.         *)
(***************************************************************************)
EXTENDS Integers, Sequences, FiniteSets, TLC

\* ---------------------------------------------------------------- bounds
\* NodeIds that fit the slot width are 1..MaxNode.
MaxNode == 3
\* Longest batch handed to build / insert / soft_delete.
MaxLen == 2
\* next_vector_id never exceeds MaxSlot (guard of insert).
MaxSlot == 3
\* Width of a slot id in bits. TLC's integers are 32-bit signed, so the
\* u32 of the source is scaled down to IdBits bits.
IdBits == 3

\* Largest k handed to a search.
MaxK == 2
\* Largest distance a search computes (distances are 0..MaxDist).
MaxDist == 1
\* Searches that update the stats are taken while the stats count fewer
\* than MaxSearches of them.
MaxSearches == 1
\* Most vertex types of a graph-type catalog.
MaxTypes == 2
\* Largest l_value handed to the procedure.
MaxL == 2
\* Threads that run insert or search calls side by side.
MaxThreads == 2
\* Searches of the threads are started while the stats count fewer than
\* MaxCounted searches.
MaxCounted == 3

\* u32::MAX at the scaled width (in_mem_diskann.rs:315, :468).
U32_MAX == (2 ^ IdBits) - 1
\* One NodeId beyond the slot width.
BigNode == U32_MAX + 1
\* IndexStats::new: min_expansion_factor starts at usize::MAX (the largest
\* integer TLC represents stands for it).
USIZE_MAX == 2147483647

NodeIds == (1 .. MaxNode) \cup {BigNode}
SlotIds == 0 .. U32_MAX

\* Sequences over S of length 0..n.
SeqUpTo(S, n) == UNION {[1 .. m -> S] : m \in 0 .. n}
Batches == SeqUpTo(NodeIds, MaxLen)

Range(s) == {s[i] : i \in DOMAIN s}
Min(a, b) == IF a < b THEN a ELSE b
Max(a, b) == IF a < b THEN b ELSE a

\* ---------------------------------------------------------------- state
VARIABLES
    node_to_vector,   \* DashMap<u64, u32>
    vector_to_node,   \* DashMap<u32, u64>
    next_vector_id,   \* AtomicU32
    stats,            \* RwLock<IndexStats>: the value behind the lock
    stats_poisoned,   \* RwLock<IndexStats>: whether the lock is poisoned
    inner,            \* the inner index: points it holds, slots it soft-deleted
    last,             \* the call that has not returned yet: operation,
                      \* arguments, adapter before it, result
    pre_insert,       \* history: the maps before the latest successful insert,
                      \* kept for that call and the call right after it
    soft_deleted,     \* history: the NodeIds soft-deleted and neither inserted
                      \* again nor rebuilt since
    lifecycle,        \* history: "never" until a build succeeds, "built" after
                      \* a successful build, "lapsed" after a later build that
                      \* failed past its clear_mappings
    threads           \* the calls that run side by side, one per thread: the
                      \* position in the call, its arguments and its locals

vars == <<node_to_vector, vector_to_node, next_vector_id, stats, stats_poisoned,
          inner, last, pre_insert, soft_deleted, lifecycle, threads>>

\* ---------------------------------------------------------------- DashMap
EmptyMap == <<>>
MapInsert(m, k, v) == [x \in (DOMAIN m) \cup {k} |-> IF x = k THEN v ELSE m[x]]
MapRemove(m, k) == [x \in (DOMAIN m) \ {k} |-> m[x]]
MapLen(m) == Cardinality(DOMAIN m)

\* ---------------------------------------------------------------- IndexStats
\* IndexStats::new. avg_search_time_us is never written and
\* avg_expansion_factor is expansion_factor_sum / expansion_factor_count;
\* build_time_ms is kept as "set or not" (its value is a clock reading).
IndexStats_new ==
    [vector_count |-> 0, memory_usage |-> 0, build_time_ms |-> "None",
     search_count |-> 0, brute_force_searches |-> 0, post_filter_searches |-> 0,
     pre_filter_searches |-> 0, total_brute_force_candidates |-> 0,
     expansion_factor_sum |-> 0, expansion_factor_count |-> 0,
     max_expansion_factor |-> 0, min_expansion_factor |-> USIZE_MAX]

update_after_build(st, vector_count) ==
    [st EXCEPT !.vector_count = vector_count, !.build_time_ms = "Some",
               !.memory_usage = 0]

\* ---------------------------------------------------------------- inner index
\* count: slots 0..count-1 hold a vector; deleted: the slots soft-deleted.
InnerEmpty == [count |-> 0, deleted |-> {}]
inner_build_from_memory(n) == [count |-> n, deleted |-> {}]
inner_insert_from_memory(inn, n) == [inn EXCEPT !.count = @ + n]
inner_soft_delete(inn, slots) == [inn EXCEPT !.deleted = @ \cup slots]
InnerLive(inn) == (0 .. inn.count - 1) \ inn.deleted

\* ---------------------------------------------------------------- the adapter
\* The adapter's own fields as one value.
Adapter(n2v, v2n, next, st, poisoned, inn) ==
    [n2v |-> n2v, v2n |-> v2n, next |-> next, stats |-> st, poisoned |-> poisoned,
     inner |-> inn]

Current ==
    Adapter(node_to_vector, vector_to_node, next_vector_id, stats, stats_poisoned,
            inner)

\* self.stats.write() returns Ok unless the lock is poisoned.
stats_write_ok(a) == ~a.poisoned

\* A clear_mappings that leaves the slot counter as it is.
clear_mappings_keep_counter(a) ==
    [a EXCEPT !.n2v = EmptyMap, !.v2n = EmptyMap,
              !.stats = IF stats_write_ok(a) THEN IndexStats_new ELSE @]

\* clear_mappings: both maps, the counter and the stats. On a poisoned lock
\* the expect panics after the maps and the counter were cleared, and the
\* stats stay.
clear_mappings(a) ==
    [a EXCEPT !.n2v = EmptyMap, !.v2n = EmptyMap, !.next = 0,
              !.stats = IF stats_write_ok(a) THEN IndexStats_new ELSE @]

Outcome(a, res, err_id) == [a |-> a, res |-> res, err_id |-> err_id]

size(a) == MapLen(a.n2v)
mapping_count(a) == MapLen(a.n2v)

\* ---------------------------------------------------------------- build
\* A build that keeps the batch in input order.
sort_by_key_unsorted(vectors) == vectors

sort_by_key(vectors) == SortSeq(vectors, LAMBDA x, y : x < y)

\* The validation loop of build over the sorted batch, from index i on
\* (1-based here, array_index = i - 1).
RECURSIVE build_loop(_, _, _, _)
build_loop(a, sorted, i, seen) ==
    IF i > Len(sorted) THEN Outcome(a, "Ok", 0)
    ELSE IF sorted[i] > U32_MAX
         THEN Outcome(clear_mappings(a), "VertexIdOverflow", sorted[i])
    ELSE IF sorted[i] \in seen
         THEN Outcome(clear_mappings(a), "DuplicateNodeId", sorted[i])
    ELSE build_loop([a EXCEPT !.n2v = MapInsert(@, sorted[i], i - 1),
                              !.v2n = MapInsert(@, i - 1, sorted[i])],
                    sorted, i + 1, seen \cup {sorted[i]})

\* A build that does not clear what the adapter held and adds the batch to
\* the vector count.
build_call_accumulating(a, vectors, inner_ok) ==
    IF Len(vectors) = 0 THEN Outcome(a, "EmptyDataset", 0)
    ELSE IF ~stats_write_ok(a) THEN Outcome(clear_mappings(a), "panic", 0)
    ELSE LET sorted == sort_by_key(vectors)
             v == build_loop(a, sorted, 1, {})
         IN  IF v.res # "Ok" THEN v
             ELSE IF inner_ok
             THEN Outcome([v.a EXCEPT !.next = Len(sorted),
                                      !.stats = update_after_build(
                                                    @, @.vector_count + Len(sorted)),
                                      !.inner = inner_build_from_memory(Len(sorted))],
                          "Ok", 0)
             ELSE Outcome([clear_mappings(v.a) EXCEPT !.inner = InnerEmpty],
                          "BuildError", 0)

\* build(vectors); inner_ok: whether build_from_memory succeeds. A failed
\* validation returns before the inner index is touched; what a failed
\* build_from_memory leaves in the inner index cannot be observed through
\* the cleared adapter and is taken as empty. On a poisoned stats lock the
\* first clear_mappings panics.
build_call(a, vectors, inner_ok) ==
    IF Len(vectors) = 0 THEN Outcome(a, "EmptyDataset", 0)
    ELSE IF ~stats_write_ok(a) THEN Outcome(clear_mappings(a), "panic", 0)
    ELSE LET sorted == sort_by_key(vectors)
             v == build_loop(clear_mappings(a), sorted, 1, {})
         IN  IF v.res # "Ok" THEN v
             ELSE IF inner_ok
             THEN Outcome([v.a EXCEPT !.next = Len(sorted),
                                      !.stats = update_after_build(@, Len(sorted)),
                                      !.inner = inner_build_from_memory(Len(sorted))],
                          "Ok", 0)
             ELSE Outcome([clear_mappings(v.a) EXCEPT !.inner = InnerEmpty],
                          "BuildError", 0)

\* ---------------------------------------------------------------- insert
\* An allocation that advances the counter by one slot less than the batch.
fetch_add_one_short(cur, n) == (cur + n - 1) % (2 ^ IdBits)
\* AtomicU32::fetch_add / fetch_sub wrap at the slot width.
fetch_add(cur, n) == (cur + n) % (2 ^ IdBits)
\* A rollback that rewinds the counter one slot too far.
fetch_sub_too_far(cur, n) == (cur - n - 1 + (2 ^ IdBits)) % (2 ^ IdBits)
fetch_sub(cur, n) == (cur - n + (2 ^ IdBits)) % (2 ^ IdBits)

\* The check made for one element of the batch before anything is written:
\* the error it raises, or "Ok".
insert_check(a, node_id) ==
    IF node_id > U32_MAX THEN "VertexIdOverflow"
    ELSE IF node_id \in DOMAIN a.n2v THEN "DuplicateNodeId"
    ELSE "Ok"

\* The validation loop of insert: the first element that fails, 0 if none.
RECURSIVE insert_validate(_, _, _)
insert_validate(a, vectors, i) ==
    IF i > Len(vectors) THEN 0
    ELSE IF insert_check(a, vectors[i]) # "Ok" THEN i
    ELSE insert_validate(a, vectors, i + 1)

\* An insert that hands out the slots in NodeId order.
RECURSIVE insert_write_sorted(_, _, _, _)
insert_write_sorted(a, vectors, base_vector_id, i) ==
    IF i > Len(vectors) THEN a
    ELSE LET sorted == sort_by_key(vectors)
         IN  insert_write_sorted(
                 [a EXCEPT !.n2v = MapInsert(@, sorted[i], base_vector_id + (i - 1)),
                           !.v2n = MapInsert(@, base_vector_id + (i - 1), sorted[i])],
                 vectors, base_vector_id, i + 1)

\* The loop writing the mappings of the batch from index i on.
RECURSIVE insert_write(_, _, _, _)
insert_write(a, vectors, base_vector_id, i) ==
    IF i > Len(vectors) THEN a
    ELSE insert_write([a EXCEPT !.n2v = MapInsert(@, vectors[i], base_vector_id + (i - 1)),
                                !.v2n = MapInsert(@, base_vector_id + (i - 1), vectors[i])],
                      vectors, base_vector_id, i + 1)

\* A rollback that removes the node_to_vector entries only.
RECURSIVE insert_rollback_one_way(_, _, _, _)
insert_rollback_one_way(a, vectors, base_vector_id, i) ==
    IF i > Len(vectors) THEN a
    ELSE insert_rollback_one_way([a EXCEPT !.n2v = MapRemove(@, vectors[i])],
                                 vectors, base_vector_id, i + 1)

\* The rollback loop over inserted_mappings from index i on.
RECURSIVE insert_rollback(_, _, _, _)
insert_rollback(a, vectors, base_vector_id, i) ==
    IF i > Len(vectors) THEN a
    ELSE insert_rollback([a EXCEPT !.n2v = MapRemove(@, vectors[i]),
                                   !.v2n = MapRemove(@, base_vector_id + (i - 1))],
                         vectors, base_vector_id, i + 1)

\* insert(vectors); inner_ok: whether insert_from_memory succeeds.
insert_call(a, vectors, inner_ok) ==
    IF Len(vectors) = 0 THEN Outcome(a, "Ok", 0)
    ELSE IF a.n2v = EmptyMap THEN Outcome(a, "IndexNotBuilt", 0)
    ELSE LET bad == insert_validate(a, vectors, 1)
         IN  IF bad # 0 THEN Outcome(a, insert_check(a, vectors[bad]), vectors[bad])
             ELSE LET base_vector_id == a.next
                      allocated == [a EXCEPT !.next = fetch_add(@, Len(vectors))]
                      written == insert_write(allocated, vectors, base_vector_id, 1)
                  IN  IF inner_ok
                      THEN Outcome([written EXCEPT
                                       !.inner = inner_insert_from_memory(@, Len(vectors))],
                                   "Ok", 0)
                      ELSE LET removed == insert_rollback(written, vectors, base_vector_id, 1)
                           IN  Outcome([removed EXCEPT !.next = fetch_sub(@, Len(vectors))],
                                       "BuildError", 0)

\* ---------------------------------------------------------------- soft_delete
\* A validation that looks at the first id only.
soft_delete_validate_first_only(a, node_ids, i) ==
    IF node_ids[1] \in DOMAIN a.n2v /\ a.n2v[node_ids[1]] \in DOMAIN a.v2n THEN 0 ELSE 1

\* The validation loop of soft_delete from index i on: the first id that
\* is not mapped in both maps, 0 if none.
RECURSIVE soft_delete_validate(_, _, _)
soft_delete_validate(a, node_ids, i) ==
    IF i > Len(node_ids) THEN 0
    ELSE IF node_ids[i] \in DOMAIN a.n2v /\ a.n2v[node_ids[i]] \in DOMAIN a.v2n
         THEN soft_delete_validate(a, node_ids, i + 1)
    ELSE i

\* A removal that leaves the vector_to_node entries behind.
RECURSIVE soft_delete_remove_one_way(_, _, _)
soft_delete_remove_one_way(a, node_ids, i) ==
    IF i > Len(node_ids) THEN a
    ELSE soft_delete_remove_one_way([a EXCEPT !.n2v = MapRemove(@, node_ids[i])],
                                    node_ids, i + 1)

\* The loop removing the mappings of node_ids from index i on.
RECURSIVE soft_delete_remove(_, _, _)
soft_delete_remove(a, node_ids, i) ==
    IF i > Len(node_ids) THEN a
    ELSE IF node_ids[i] \in DOMAIN a.n2v
         THEN soft_delete_remove([a EXCEPT !.n2v = MapRemove(@, node_ids[i]),
                                           !.v2n = MapRemove(@, a.n2v[node_ids[i]])],
                                 node_ids, i + 1)
    ELSE soft_delete_remove(a, node_ids, i + 1)

\* soft_delete(node_ids); inner_ok: whether the inner soft_delete succeeds.
soft_delete_call(a, node_ids, inner_ok) ==
    IF Len(node_ids) = 0 THEN Outcome(a, "Ok", 0)
    ELSE IF a.n2v = EmptyMap THEN Outcome(a, "IndexNotBuilt", 0)
    ELSE LET bad == soft_delete_validate(a, node_ids, 1)
         IN  IF bad # 0 THEN Outcome(a, "NodeIdNotFound", node_ids[bad])
             ELSE IF inner_ok
             THEN LET vector_ids_to_delete ==
                          {a.n2v[n] : n \in Range(node_ids) \cap DOMAIN a.n2v}
                      removed == soft_delete_remove(a, node_ids, 1)
                  IN  Outcome([removed EXCEPT
                                  !.inner = inner_soft_delete(@, vector_ids_to_delete)],
                              "Ok", 0)
             ELSE Outcome(a, "DiskANN", 0)

\* ---------------------------------------------------------------- FilterMask
\* A mask: the candidates in the order iter_candidates yields them, and
\* selectivity() in thousandths. NoMask is filter_mask = None.
NoMask == [some |-> FALSE, cands |-> <<>>, sel |-> 0]
SomeMask(cands, sel) == [some |-> TRUE, cands |-> cands, sel |-> sel]
candidate_count(mask) == Len(mask.cands)
contains_vector(mask, vector_id) == vector_id \in Range(mask.cands)

\* The factor rounded down instead of up.
ceil_log_factor_floor(sel) ==
    IF sel >= 224 THEN 2
    ELSE IF sel >= 136 THEN 3
    ELSE IF sel >= 83 THEN 4
    ELSE IF sel >= 50 THEN 5
    ELSE IF sel >= 31 THEN 6
    ELSE IF sel >= 19 THEN 7
    ELSE IF sel >= 12 THEN 8
    ELSE IF sel >= 7 THEN 9
    ELSE IF sel >= 5 THEN 10
    ELSE IF sel >= 3 THEN 11
    ELSE IF sel >= 2 THEN 12
    ELSE 13

\* ceil(2 * x) for x = max(1, -ln(sel / 1000)): -ln s <= n / 2 exactly when
\* s >= e^(-n/2), so the value is read off the thresholds 1000 * e^(-n/2).
ceil_log_factor(sel) ==
    IF sel >= 368 THEN 2
    ELSE IF sel >= 224 THEN 3
    ELSE IF sel >= 136 THEN 4
    ELSE IF sel >= 83 THEN 5
    ELSE IF sel >= 50 THEN 6
    ELSE IF sel >= 31 THEN 7
    ELSE IF sel >= 19 THEN 8
    ELSE IF sel >= 12 THEN 9
    ELSE IF sel >= 7 THEN 10
    ELSE IF sel >= 5 THEN 11
    ELSE IF sel >= 3 THEN 12
    ELSE IF sel >= 2 THEN 13
    ELSE 14

clamp(x, lo, hi) == IF x < lo THEN lo ELSE IF x > hi THEN hi ELSE x

expansion_factor(sel) == clamp(ceil_log_factor(sel), 2, 50)

\* An update that leaves max_expansion_factor as it is.
update_expansion_factor_no_max(st, factor) ==
    [st EXCEPT !.expansion_factor_sum = @ + factor,
               !.expansion_factor_count = @ + 1,
               !.min_expansion_factor = IF @ = USIZE_MAX THEN factor ELSE Min(@, factor)]

\* IndexStats::update_expansion_factor
update_expansion_factor(st, factor) ==
    [st EXCEPT !.expansion_factor_sum = @ + factor,
               !.expansion_factor_count = @ + 1,
               !.max_expansion_factor = Max(@, factor),
               !.min_expansion_factor = IF @ = USIZE_MAX THEN factor ELSE Min(@, factor)]

\* ---------------------------------------------------------------- ann_search
\* What a search leaves: the adapter, the result, the NodeIds returned,
\* whether inner.search or inner.get_aligned_vector_data was called (touched)
\* and the number of results inner.search was asked for (asked, 0 when it
\* was not called).
Found(a, res, err_id, out, touched) ==
    [a |-> a, res |-> res, err_id |-> err_id, out |-> out, touched |-> touched,
     asked |-> 0]

\* What the environment decides during one search: whether the inner search
\* succeeds and the slots it returns (found), and the distance of every
\* slot's vector to the query (dist).
Env(inner_ok, found, dist) == [inner_ok |-> inner_ok, found |-> found, dist |-> dist]

\* A mapping loop that skips the slots missing from vector_to_node.
RECURSIVE ann_map_skip_missing(_, _, _, _)
ann_map_skip_missing(a, vector_ids, i, node_ids) ==
    IF i > Len(vector_ids) THEN Found(a, "Ok", 0, node_ids, TRUE)
    ELSE IF vector_ids[i] \in DOMAIN a.v2n
         THEN ann_map_skip_missing(a, vector_ids, i + 1,
                                   Append(node_ids, a.v2n[vector_ids[i]]))
    ELSE ann_map_skip_missing(a, vector_ids, i + 1, node_ids)

\* The loop mapping the slots the inner search returned to NodeIds.
RECURSIVE ann_map(_, _, _, _)
ann_map(a, vector_ids, i, node_ids) ==
    IF i > Len(vector_ids) THEN Found(a, "Ok", 0, node_ids, TRUE)
    ELSE IF vector_ids[i] \in DOMAIN a.v2n
         THEN ann_map(a, vector_ids, i + 1, Append(node_ids, a.v2n[vector_ids[i]]))
    ELSE Found(a, "VectorIdNotFound", vector_ids[i], <<>>, TRUE)

\* An effective_k that asks the inner index for one result at least.
effective_k_at_least_one(a, k) == Max(1, Min(k, size(a)))

effective_k(a, k) == Min(k, size(a))

\* The stats lock is taken with expect: on a poisoned lock the call panics
\* after the results were mapped.
ann_search_call(a, k, env) ==
    IF a.v2n = EmptyMap THEN Found(a, "IndexNotBuilt", 0, <<>>, FALSE)
    ELSE IF effective_k(a, k) = 0 THEN Found(a, "Ok", 0, <<>>, FALSE)
    ELSE LET m == ann_map(a, env.found, 1, <<>>)
             r == IF ~env.inner_ok THEN Found(a, "SearchError", 0, <<>>, TRUE)
                  ELSE IF m.res # "Ok" THEN m
                  ELSE IF ~stats_write_ok(a) THEN Found(a, "panic", 0, <<>>, TRUE)
                  ELSE [m EXCEPT !.a.stats.search_count = @ + 1]
         IN  [r EXCEPT !.asked = effective_k(a, k)]

\* ---------------------------------------------------------------- brute force
\* BinaryHeap<(OrderedFloat<f32>, u32)>: a set of (distance, slot) pairs
\* ordered as tuples.
PairLess(p, q) == p[1] < q[1] \/ (p[1] = q[1] /\ p[2] < q[2])
heap_peek(heap) == CHOOSE p \in heap : \A q \in heap : q = p \/ PairLess(q, p)

RECURSIVE into_sorted_vec(_)
into_sorted_vec(heap) ==
    IF heap = {} THEN <<>>
    ELSE LET least == CHOOSE p \in heap : \A q \in heap : q = p \/ PairLess(p, q)
         IN  <<least>> \o into_sorted_vec(heap \ {least})

\* A heap that keeps the first k candidates and never replaces its top.
heap_offer_keep_first(heap, k, distance, vector_id) ==
    IF Cardinality(heap) < k THEN heap \cup {<<distance, vector_id>>} ELSE heap

\* One candidate offered to the heap.
heap_offer(heap, k, distance, vector_id) ==
    IF Cardinality(heap) < k THEN heap \cup {<<distance, vector_id>>}
    ELSE IF distance < heap_peek(heap)[1]
         THEN (heap \ {heap_peek(heap)}) \cup {<<distance, vector_id>>}
    ELSE heap

\* inner.get_aligned_vector_data fails for a slot that holds no vector.
get_aligned_vector_data_ok(inn, vector_id) == vector_id < inn.count

\* The scan over iter_candidates from index i on.
RECURSIVE brute_scan(_, _, _, _, _, _, _)
brute_scan(a, k, cands, dist, i, heap, valid_candidates) ==
    IF i > Len(cands) THEN [ok |-> TRUE, heap |-> heap, valid |-> valid_candidates]
    ELSE IF ~get_aligned_vector_data_ok(a.inner, cands[i])
         THEN [ok |-> FALSE, heap |-> heap, valid |-> valid_candidates]
    ELSE brute_scan(a, k, cands, dist, i + 1,
                    heap_offer(heap, k, dist[cands[i]], cands[i]),
                    valid_candidates + 1)

\* filter_map over the sorted heap: slots absent from vector_to_node drop out.
RECURSIVE brute_map(_, _, _)
brute_map(a, results, i) ==
    IF i > Len(results) THEN <<>>
    ELSE IF results[i][2] \in DOMAIN a.v2n
         THEN <<a.v2n[results[i][2]]>> \o brute_map(a, results, i + 1)
    ELSE brute_map(a, results, i + 1)

\* The stats are updated under if let Ok: skipped on a poisoned lock.
brute_force_search(a, k, mask, env) ==
    IF k = 0 THEN Found(a, "Ok", 0, <<>>, FALSE)
    ELSE LET sc == brute_scan(a, k, mask.cands, env.dist, 1, {}, 0)
             touched == Len(mask.cands) > 0
             node_ids == brute_map(a, into_sorted_vec(sc.heap), 1)
         IN  IF ~sc.ok THEN Found(a, "DiskANN", 0, <<>>, touched)
             ELSE IF ~stats_write_ok(a) THEN Found(a, "Ok", 0, node_ids, touched)
             ELSE Found([a EXCEPT !.stats.brute_force_searches = @ + 1,
                                  !.stats.total_brute_force_candidates = @ + sc.valid],
                        "Ok", 0, node_ids, touched)

\* ---------------------------------------------------------------- post filter
expanded_k(a, k, mask) == Min(k * expansion_factor(mask.sel), size(a))

\* The filter over the ANN results from index i on, before take(k).
RECURSIVE post_filter(_, _, _, _)
post_filter(a, mask, all_results, i) ==
    IF i > Len(all_results) THEN <<>>
    ELSE IF all_results[i] \in DOMAIN a.n2v
            /\ contains_vector(mask, a.n2v[all_results[i]])
         THEN <<all_results[i]>> \o post_filter(a, mask, all_results, i + 1)
    ELSE post_filter(a, mask, all_results, i + 1)

take(s, k) == SubSeq(s, 1, Min(k, Len(s)))

\* What post_filter_search does once ann_search has returned r: the filter,
\* take(k) and the stats, on the adapter a as it is by then. The stats are
\* updated under if let Ok: skipped on a poisoned lock.
post_filter_finish(a, k, mask, r) ==
    LET filtered == take(post_filter(a, mask, r.out, 1), k)
        counted == [a.stats EXCEPT !.post_filter_searches = @ + 1]
        left == IF ~stats_write_ok(a) THEN a
                ELSE [a EXCEPT !.stats = update_expansion_factor(
                                             counted, expansion_factor(mask.sel))]
    IN  [Found(left, "Ok", 0, filtered, r.touched) EXCEPT !.asked = r.asked]

post_filter_search(a, k, mask, env) ==
    IF expanded_k(a, k, mask) = 0 THEN Found(a, "Ok", 0, <<>>, FALSE)
    ELSE LET r == ann_search_call(a, expanded_k(a, k, mask), env)
         IN  IF r.res # "Ok" THEN r
             ELSE post_filter_finish(r.a, k, mask, r)

\* ---------------------------------------------------------------- search
\* selectivity < 0.1, in thousandths.
BruteForceBelow == 100

\* A dispatch that takes the post-filter path below the threshold and the
\* brute-force path from the threshold on.
search_call_swapped(a, k, mask, env) ==
    IF ~mask.some THEN ann_search_call(a, k, env)
    ELSE IF a.v2n = EmptyMap THEN Found(a, "IndexNotBuilt", 0, <<>>, FALSE)
    ELSE IF candidate_count(mask) = 0 THEN Found(a, "Ok", 0, <<>>, FALSE)
    ELSE IF mask.sel < BruteForceBelow THEN post_filter_search(a, k, mask, env)
    ELSE brute_force_search(a, k, mask, env)

search_call(a, k, mask, env) ==
    IF ~mask.some THEN ann_search_call(a, k, env)
    ELSE IF a.v2n = EmptyMap THEN Found(a, "IndexNotBuilt", 0, <<>>, FALSE)
    ELSE IF candidate_count(mask) = 0 THEN Found(a, "Ok", 0, <<>>, FALSE)
    ELSE IF mask.sel < BruteForceBelow THEN brute_force_search(a, k, mask, env)
    ELSE post_filter_search(a, k, mask, env)

\* ---------------------------------------------------------------- the calls
\* A call of build / insert / soft_delete and a call of a search, as last
\* records them: the operation, its arguments, the adapter before the call
\* (pre), the result and, for a search, the NodeIds returned (out).
NoEnv == Env(TRUE, <<>>, <<>>)

\* Option<u32>
None == [some |-> FALSE, id |-> 0]
Some(id) == [some |-> TRUE, id |-> id]

\* What a call of the VectorSearch procedure adds to a call record: its
\* arguments, the context it ran in (the catalog when the call read it),
\* the property id it resolved and whether it called vector_search.
Args(property_name, query_len, l_value, has_graph, graph_type, property_id, searched) ==
    [property_name |-> property_name, query_len |-> query_len, l_value |-> l_value,
     has_graph |-> has_graph, graph_type |-> graph_type,
     property_id |-> property_id, searched |-> searched]
NoArgs == Args("", 0, 0, FALSE, <<>>, None, FALSE)

Call(op, nodes, pre, res, err_id) ==
    [op |-> op, nodes |-> nodes, k |-> 0, mask |-> NoMask, env |-> NoEnv,
     pre |-> pre, res |-> res, err_id |-> err_id, out |-> <<>>, touched |-> FALSE,
     asked |-> 0, args |-> NoArgs]

SearchCall(op, k, mask, env, pre, r) ==
    [op |-> op, nodes |-> <<>>, k |-> k, mask |-> mask, env |-> env,
     pre |-> pre, res |-> r.res, err_id |-> r.err_id, out |-> r.out,
     touched |-> r.touched, asked |-> r.asked, args |-> NoArgs]

Install(a) ==
    /\ node_to_vector' = a.n2v
    /\ vector_to_node' = a.v2n
    /\ next_vector_id' = a.next
    /\ stats' = a.stats
    /\ stats_poisoned' = a.poisoned
    /\ inner' = a.inner

NoSnapshot ==
    [set |-> FALSE, age |-> 0, nodes |-> <<>>, n2v |-> EmptyMap, v2n |-> EmptyMap]
\* The snapshot of an insert lives through the next call and is dropped then.
Carry(snapshot) ==
    IF snapshot.set /\ snapshot.age = 0 THEN [snapshot EXCEPT !.age = 1] ELSE NoSnapshot

\* No call is in progress: the caller has taken the result of the last one.
\* InMemDiskANNAdapter::new
New == Adapter(EmptyMap, EmptyMap, 0, IndexStats_new, FALSE, InnerEmpty)

NoCall == Call("none", <<>>, New, "Ok", 0)
Idle == last = NoCall

\* A thread: where it is in its call (pc), the batch and base_vector_id of an
\* insert, k, the mask and the ANN results of a search, and the result of
\* the call once it is over.
Threads == 1 .. MaxThreads
NoAnn == [out |-> <<>>, touched |-> FALSE, asked |-> 0]
IdleThread ==
    [pc |-> "idle", vectors |-> <<>>, base |-> 0, k |-> 0, mask |-> NoMask,
     ann |-> NoAnn, res |-> "Ok"]
\* No thread is inside a call.
Quiet == \A t \in Threads : threads[t] = IdleThread

\* build takes the adapter exclusively: no thread is inside a call.
build ==
    /\ Idle
    /\ Quiet
    /\ UNCHANGED threads
    /\ \E vectors \in Batches, inner_ok \in BOOLEAN :
           LET r == build_call(Current, vectors, inner_ok)
           IN  /\ Install(r.a)
               /\ last' = Call("build", vectors, Current, r.res, r.err_id)
               /\ pre_insert' = Carry(pre_insert)
               /\ soft_deleted' = IF r.res = "EmptyDataset" THEN soft_deleted ELSE {}
               /\ lifecycle' = IF r.res = "Ok" THEN "built"
                                ELSE IF r.res = "EmptyDataset" \/ lifecycle = "never"
                                     THEN lifecycle
                                ELSE "lapsed"

\* insert is taken while the batch fits under the slot bound of the model.
insert ==
    /\ Idle
    /\ \E vectors \in Batches, inner_ok \in BOOLEAN :
           /\ next_vector_id + Len(vectors) <= MaxSlot
           /\ LET r == insert_call(Current, vectors, inner_ok)
              IN  /\ Install(r.a)
                  /\ last' = Call("insert", vectors, Current, r.res, r.err_id)
                  /\ pre_insert' = IF r.res = "Ok" /\ Len(vectors) > 0
                                   THEN [set |-> TRUE, age |-> 0, nodes |-> vectors,
                                         n2v |-> node_to_vector,
                                         v2n |-> vector_to_node]
                                   ELSE Carry(pre_insert)
                  /\ soft_deleted' = IF r.res = "Ok"
                                     THEN soft_deleted \ Range(vectors)
                                     ELSE soft_deleted
                  /\ UNCHANGED <<lifecycle, threads>>

soft_delete ==
    /\ Idle
    /\ \E node_ids \in Batches, inner_ok \in BOOLEAN :
           LET r == soft_delete_call(Current, node_ids, inner_ok)
           IN  /\ Install(r.a)
               /\ last' = Call("soft_delete", node_ids, Current, r.res, r.err_id)
               /\ pre_insert' = Carry(pre_insert)
               /\ soft_deleted' = IF r.res = "Ok"
                                  THEN soft_deleted \cup Range(node_ids)
                                  ELSE soft_deleted
               /\ UNCHANGED <<lifecycle, threads>>

\* ---------------------------------------------------------------- search inputs
Injective(s) == \A i, j \in DOMAIN s : s[i] = s[j] => i = j
DistinctSeqs(S, n) == {s \in SeqUpTo(S, n) : Injective(s)}

Ks == 0 .. MaxK
CandSlots == 0 .. (MaxSlot - 1)
\* Selectivities below, at and above the brute-force threshold.
Selectivities == {50, 100, 500}
Masks == {SomeMask(c, sel) : c \in DistinctSeqs(CandSlots, MaxSlot), sel \in Selectivities}
\* The distances a brute-force scan over the mask computes, per candidate.
Dists(mask) == [Range(mask.cands) -> 0 .. MaxDist]
NoDist == [s \in CandSlots |-> 0]

\* What the inner search may do when asked for n results: fail, or return at
\* most n distinct slots among those it holds and has not soft-deleted.
InnerSearches(a, n) ==
    {Env(FALSE, <<>>, NoDist)}
        \cup {Env(TRUE, f, NoDist) : f \in DistinctSeqs(InnerLive(a.inner), n)}

\* The environment choices that the path taken by search(k, mask) reads.
Envs(a, k, mask) ==
    IF ~mask.some THEN InnerSearches(a, effective_k(a, k))
    ELSE IF a.v2n = EmptyMap \/ candidate_count(mask) = 0 THEN {Env(TRUE, <<>>, NoDist)}
    ELSE IF mask.sel < BruteForceBelow
         THEN IF k = 0 THEN {Env(TRUE, <<>>, NoDist)}
              ELSE {Env(TRUE, <<>>, d) : d \in Dists(mask)}
    ELSE InnerSearches(a, expanded_k(a, k, mask))

\* Searches are taken while the stats count fewer than MaxSearches of them.
CountedSearches == stats.search_count + stats.brute_force_searches

ann_search ==
    /\ Idle
    /\ CountedSearches < MaxSearches
    /\ \E k \in Ks :
           \E env \in InnerSearches(Current, effective_k(Current, k)) :
               LET r == ann_search_call(Current, k, env)
               IN  /\ Install(r.a)
                   /\ last' = SearchCall("ann_search", k, NoMask, env, Current, r)
                   /\ pre_insert' = Carry(pre_insert)
                   /\ UNCHANGED <<soft_deleted, lifecycle, threads>>

search ==
    /\ Idle
    /\ CountedSearches < MaxSearches
    /\ \E k \in Ks, mask \in Masks \cup {NoMask} :
           \E env \in Envs(Current, k, mask) :
               LET r == search_call(Current, k, mask, env)
               IN  /\ Install(r.a)
                   /\ last' = SearchCall("search", k, mask, env, Current, r)
                   /\ pre_insert' = Carry(pre_insert)
                   /\ UNCHANGED <<soft_deleted, lifecycle, threads>>

Init ==
    /\ node_to_vector = New.n2v
    /\ vector_to_node = New.v2n
    /\ next_vector_id = New.next
    /\ stats = New.stats
    /\ stats_poisoned = New.poisoned
    /\ inner = New.inner
    /\ last = NoCall
    /\ pre_insert = NoSnapshot
    /\ soft_deleted = {}
    /\ lifecycle = "never"
    /\ threads = [t \in Threads |-> IdleThread]

\* The call returns: its result is handed to the caller, and the next call
\* may start. The maps, the counter, the stats and the inner index stay; the
\* snapshot of an insert is dropped when the call after that insert returns.
return ==
    /\ ~Idle
    /\ last' = NoCall
    /\ pre_insert' = IF pre_insert.age = 1 THEN NoSnapshot ELSE pre_insert
    /\ UNCHANGED <<node_to_vector, vector_to_node, next_vector_id, stats,
                   stats_poisoned, inner, soft_deleted, lifecycle, threads>>

\* A thread panics while it holds the write guard of the stats lock: the
\* lock is poisoned from then on.
poison ==
    /\ Idle
    /\ ~stats_poisoned
    /\ stats_poisoned' = TRUE
    /\ UNCHANGED <<node_to_vector, vector_to_node, next_vector_id, stats, inner,
                   last, pre_insert, soft_deleted, lifecycle, threads>>

Next == build \/ insert \/ soft_delete \/ ann_search \/ search \/ return \/ poison

Spec == Init /\ [][Next]_vars

\* The calls that take &mut self. search and ann_search take &self and write
\* nothing but the stats, so the maps, the counter and the inner index go
\* through the same states with and without them.
NextUpdates == build \/ insert \/ soft_delete \/ return

SpecUpdates == Init /\ [][NextUpdates]_vars

\* ---------------------------------------------------------------- VectorSearch
\* The procedure of minigu/core/src/procedures/vector_search.rs. A vertex
\* type is the function from its property names to their ids; a graph-type
\* catalog is the sequence of its vertex types in vertex_type_keys() order.
\* The lookups get_vertex_type and get_property are taken to return Ok.
PropertyNames == {"embedding", "title"}
PropertyIds == {1, 2}
VertexTypes == {<<>>} \cup {[x \in {n} |-> id] : n \in PropertyNames, id \in PropertyIds}
Catalogs == SeqUpTo(VertexTypes, MaxTypes)
\* The query vector is empty or holds one component.
QueryLens == {0, 1}

\* A resolution that keeps the last match.
RECURSIVE resolve_loop_last(_, _, _)
resolve_loop_last(property_name, graph_type, i) ==
    IF i > Len(graph_type) THEN None
    ELSE LET rest == resolve_loop_last(property_name, graph_type, i + 1)
         IN  IF rest.some THEN rest
             ELSE IF property_name \in DOMAIN graph_type[i]
                  THEN Some(graph_type[i][property_name])
             ELSE None

\* The loop of resolve_property_name over the vertex types from index i on.
RECURSIVE resolve_loop(_, _, _)
resolve_loop(property_name, graph_type, i) ==
    IF i > Len(graph_type) THEN None
    ELSE IF property_name \in DOMAIN graph_type[i]
         THEN Some(graph_type[i][property_name])
    ELSE resolve_loop(property_name, graph_type, i + 1)

resolve_property_name(property_name, graph_type) ==
    resolve_loop(property_name, graph_type, 1)

\* memory_graph.vector_search: the search of the vector index of the
\* property, with no filter mask.
vector_search(a, property_id, query_len, k, l_value, env) ==
    search_call(a, k, NoMask, env)

\* What the procedure leaves: the adapter, the result, the rows returned,
\* the property id resolved and whether vector_search was called.
Ran(a, res, out, property_id, searched) ==
    [a |-> a, res |-> res, out |-> out, property_id |-> property_id,
     searched |-> searched, touched |-> FALSE, asked |-> 0]

\* The closure of build_procedure.
procedure_call(a, property_name, query_len, k, l_value, has_graph, graph_type, env) ==
    IF k = 0 THEN Ran(a, "k must be positive", <<>>, None, FALSE)
    ELSE IF l_value = 0 THEN Ran(a, "l_value must be positive", <<>>, None, FALSE)
    ELSE IF ~has_graph THEN Ran(a, "No current graph set", <<>>, None, FALSE)
    ELSE LET property_id == resolve_property_name(property_name, graph_type)
         IN  IF ~property_id.some
             THEN Ran(a, "Property not found", <<>>, property_id, FALSE)
             ELSE LET r == vector_search(a, property_id.id, query_len, k, l_value, env)
                      ran == IF r.res = "Ok" THEN Ran(r.a, "Ok", r.out, property_id, TRUE)
                             ELSE IF r.res = "panic"
                                  THEN Ran(r.a, "panic", <<>>, property_id, TRUE)
                             ELSE Ran(r.a, "Vector search failed", <<>>, property_id, TRUE)
                  IN  [ran EXCEPT !.touched = r.touched, !.asked = r.asked]

\* The environment choices a call of the procedure reads: those of the
\* unmasked search when the call gets to it.
ProcedureEnvs(a, property_name, k, l_value, has_graph, graph_type) ==
    IF k > 0 /\ l_value > 0 /\ has_graph
          /\ resolve_property_name(property_name, graph_type).some
    THEN InnerSearches(a, effective_k(a, k))
    ELSE {NoEnv}

VectorSearch ==
    /\ Idle
    /\ CountedSearches < MaxSearches
    /\ \E property_name \in PropertyNames, query_len \in QueryLens,
          k \in Ks, l_value \in 0 .. MaxL,
          has_graph \in BOOLEAN, graph_type \in Catalogs :
           \E env \in ProcedureEnvs(Current, property_name, k, l_value, has_graph,
                                     graph_type) :
               LET r == procedure_call(Current, property_name, query_len, k, l_value,
                                       has_graph, graph_type, env)
               IN  /\ Install(r.a)
                   /\ last' = [op |-> "VectorSearch", nodes |-> <<>>, k |-> k,
                               mask |-> NoMask, env |-> env, pre |-> Current,
                               res |-> r.res, err_id |-> 0, out |-> r.out,
                               touched |-> r.touched, asked |-> r.asked,
                               args |-> Args(property_name, query_len, l_value,
                                             has_graph,
                                             IF k > 0 /\ l_value > 0 /\ has_graph
                                             THEN graph_type ELSE <<>>,
                                             r.property_id, r.searched)]
                   /\ pre_insert' = Carry(pre_insert)
                   /\ UNCHANGED <<soft_deleted, lifecycle, threads>>

\* The procedure over an index that build has filled.
NextProcedure == build \/ VectorSearch \/ return

SpecProcedure == Init /\ [][NextProcedure]_vars

\* ---------------------------------------------------------------- selectivities
\* post_filter_search called on its own, over every selectivity of the grid
\* of thousandths in (0, 1], with a mask of the one candidate slot 0. The
\* answer of the inner search does not enter the expansion factor: it fails
\* or returns the n lowest live slots.
FineSelectivities == 1 .. 1000

RECURSIVE Lowest(_, _)
Lowest(slots, n) ==
    IF n = 0 \/ slots = {} THEN <<>>
    ELSE LET least == CHOOSE x \in slots : \A y \in slots : x <= y
         IN  <<least>> \o Lowest(slots \ {least}, n - 1)

SelectivityEnvs(a, n) ==
    {Env(FALSE, <<>>, NoDist), Env(TRUE, Lowest(InnerLive(a.inner), n), NoDist)}

call_post_filter_search ==
    /\ Idle
    /\ CountedSearches < MaxSearches
    /\ \E k \in Ks, sel \in FineSelectivities :
           LET mask == SomeMask(<<0>>, sel)
           IN  \E env \in SelectivityEnvs(Current, expanded_k(Current, k, mask)) :
                   LET r == post_filter_search(Current, k, mask, env)
                   IN  /\ Install(r.a)
                       /\ last' = SearchCall("post_filter_search", k, mask, env,
                                             Current, r)
                       /\ pre_insert' = Carry(pre_insert)
                       /\ UNCHANGED <<soft_deleted, lifecycle, threads>>

NextSelectivity == build \/ call_post_filter_search \/ return

SpecSelectivity == Init /\ [][NextSelectivity]_vars

\* ---------------------------------------------------------------- any slots
\* ann_search over an inner index that is not held to its contract: asked
\* for n results, the inner search fails or fills the buffer with any slot
\* ids and returns any actual_count <= n (found is the buffer's first
\* actual_count entries).
AnySlots(n) ==
    {Env(FALSE, <<>>, NoDist)} \cup {Env(TRUE, f, NoDist) : f \in SeqUpTo(CandSlots, n)}

ann_search_any_slots ==
    /\ Idle
    /\ CountedSearches < MaxSearches
    /\ \E k \in Ks :
           \E env \in AnySlots(effective_k(Current, k)) :
               LET r == ann_search_call(Current, k, env)
               IN  /\ Install(r.a)
                   /\ last' = SearchCall("ann_search", k, NoMask, env, Current, r)
                   /\ pre_insert' = Carry(pre_insert)
                   /\ UNCHANGED <<soft_deleted, lifecycle, threads>>

\* The index is built and thinned by soft_delete, which leaves unmapped
\* slots below and between the mapped ones.
NextAnySlots == build \/ soft_delete \/ ann_search_any_slots \/ return

SpecAnySlots == Init /\ [][NextAnySlots]_vars

\* ---------------------------------------------------------------- threads
\* Calls that run side by side. A thread takes one step per access to what
\* the calls share: the two maps, next_vector_id, the stats lock and the
\* inner index. A call starts while no build, insert or soft_delete of the
\* calls above is in progress.
Enter(t, pc, vectors, k, mask, ann, res) ==
    threads' = [threads EXCEPT ![t] = [pc |-> pc, vectors |-> vectors, base |-> 0,
                                       k |-> k, mask |-> mask, ann |-> ann,
                                       res |-> res]]
Goes(t, pc) == threads' = [threads EXCEPT ![t].pc = pc]
Returns(t, res) == threads' = [threads EXCEPT ![t] = [IdleThread EXCEPT !.pc = "returned",
                                                                        !.res = res]]

\* The call is over: the caller has its result.
thread_return ==
    /\ \E t \in Threads :
           /\ threads[t].pc = "returned"
           /\ threads' = [threads EXCEPT ![t] = IdleThread]
    /\ UNCHANGED <<node_to_vector, vector_to_node, next_vector_id, stats,
                   stats_poisoned, inner, last, pre_insert, soft_deleted, lifecycle>>

\* ---------------------------------------------------------------- inserters
\* insert up to its fetch_add: the early returns and the validation loop.
\* The result it returns with, or "validated".
insert_entry(a, vectors) ==
    IF Len(vectors) = 0 THEN "Ok"
    ELSE IF a.n2v = EmptyMap THEN "IndexNotBuilt"
    ELSE LET bad == insert_validate(a, vectors, 1)
         IN  IF bad # 0 THEN insert_check(a, vectors[bad]) ELSE "validated"

insert_enter ==
    /\ Idle
    /\ \E t \in Threads, vectors \in Batches :
           /\ threads[t].pc = "idle"
           /\ LET res == insert_entry(Current, vectors)
              IN  IF res = "validated"
                  THEN Enter(t, "validated", vectors, 0, NoMask, NoAnn, "Ok")
                  ELSE Returns(t, res)
    /\ UNCHANGED <<node_to_vector, vector_to_node, next_vector_id, stats,
                   stats_poisoned, inner, last, pre_insert, soft_deleted, lifecycle>>

\* next_vector_id.fetch_add, taken while the batch fits under the slot bound
\* of the model.
insert_allocate ==
    /\ \E t \in Threads :
           /\ threads[t].pc = "validated"
           /\ next_vector_id + Len(threads[t].vectors) <= MaxSlot
           /\ next_vector_id' = fetch_add(next_vector_id, Len(threads[t].vectors))
           /\ threads' = [threads EXCEPT ![t].pc = "allocated",
                                         ![t].base = next_vector_id]
    /\ UNCHANGED <<node_to_vector, vector_to_node, stats, stats_poisoned, inner,
                   last, pre_insert, soft_deleted, lifecycle>>

\* The loop writing the mappings of the batch.
insert_map ==
    /\ \E t \in Threads :
           /\ threads[t].pc = "allocated"
           /\ LET written == insert_write(Current, threads[t].vectors, threads[t].base, 1)
              IN  /\ node_to_vector' = written.n2v
                  /\ vector_to_node' = written.v2n
           /\ Goes(t, "written")
    /\ UNCHANGED <<next_vector_id, stats, stats_poisoned, inner, last, pre_insert,
                   soft_deleted, lifecycle>>

\* inner.insert_from_memory succeeds, and the call returns Ok, or fails.
insert_inner ==
    /\ \E t \in Threads, inner_ok \in BOOLEAN :
           /\ threads[t].pc = "written"
           /\ IF inner_ok
              THEN /\ inner' = inner_insert_from_memory(inner, Len(threads[t].vectors))
                   /\ Goes(t, "returned")
              ELSE /\ inner' = inner
                   /\ Goes(t, "failed")
    /\ UNCHANGED <<node_to_vector, vector_to_node, next_vector_id, stats,
                   stats_poisoned, last, pre_insert, soft_deleted, lifecycle>>

\* The rollback loop over inserted_mappings.
insert_undo ==
    /\ \E t \in Threads :
           /\ threads[t].pc = "failed"
           /\ LET removed == insert_rollback(Current, threads[t].vectors,
                                             threads[t].base, 1)
              IN  /\ node_to_vector' = removed.n2v
                  /\ vector_to_node' = removed.v2n
           /\ Goes(t, "unmapped")
    /\ UNCHANGED <<next_vector_id, stats, stats_poisoned, inner, last, pre_insert,
                   soft_deleted, lifecycle>>

\* next_vector_id.fetch_sub, and the call returns BuildError.
insert_rewind ==
    /\ \E t \in Threads :
           /\ threads[t].pc = "unmapped"
           /\ next_vector_id' = fetch_sub(next_vector_id, Len(threads[t].vectors))
           /\ Returns(t, "BuildError")
    /\ UNCHANGED <<node_to_vector, vector_to_node, stats, stats_poisoned, inner,
                   last, pre_insert, soft_deleted, lifecycle>>

NextInserters ==
    \/ build \/ return
    \/ insert_enter \/ insert_allocate \/ insert_map \/ insert_inner
    \/ insert_undo \/ insert_rewind \/ thread_return

SpecInserters == Init /\ [][NextInserters]_vars

\* ---------------------------------------------------------------- searchers
\* search calls running side by side. The maps and the inner index do not
\* change under them, so a call takes one step per stats lock it takes:
\* ann_search, brute_force_search and the returns that take none are one
\* step, post_filter_search is the step of its ann_search and the step of
\* its own stats update. The masks have the one candidate slot 0 and the
\* inner search fails or returns the lowest live slots.
ThreadMasks == {NoMask} \cup {SomeMask(<<0>>, sel) : sel \in Selectivities}

\* search gets to the ann_search of post_filter_search.
post_filter_path(a, k, mask) ==
    /\ mask.some
    /\ a.v2n # EmptyMap
    /\ candidate_count(mask) > 0
    /\ ~(mask.sel < BruteForceBelow)
    /\ expanded_k(a, k, mask) # 0

\* search up to and including the first stats lock it takes.
search_first(a, k, mask, env) ==
    IF post_filter_path(a, k, mask)
    THEN ann_search_call(a, expanded_k(a, k, mask), env)
    ELSE search_call(a, k, mask, env)

ThreadEnvs(a, k, mask) ==
    IF post_filter_path(a, k, mask) THEN SelectivityEnvs(a, expanded_k(a, k, mask))
    ELSE IF ~mask.some THEN SelectivityEnvs(a, effective_k(a, k))
    ELSE {Env(TRUE, <<>>, NoDist)}

search_enter ==
    /\ Idle
    /\ CountedSearches < MaxCounted
    /\ \E t \in Threads, k \in Ks, mask \in ThreadMasks :
           \E env \in ThreadEnvs(Current, k, mask) :
               LET r == search_first(Current, k, mask, env)
               IN  /\ threads[t].pc = "idle"
                   /\ Install(r.a)
                   /\ IF post_filter_path(Current, k, mask) /\ r.res = "Ok"
                      THEN Enter(t, "filtering", <<>>, k, mask,
                                 [out |-> r.out, touched |-> r.touched,
                                  asked |-> r.asked], "Ok")
                      ELSE Returns(t, r.res)
    /\ UNCHANGED <<last, pre_insert, soft_deleted, lifecycle>>

\* The filter, take(k) and the stats update of post_filter_search.
search_finish ==
    /\ \E t \in Threads :
           /\ threads[t].pc = "filtering"
           /\ LET r == post_filter_finish(Current, threads[t].k, threads[t].mask,
                                          threads[t].ann)
              IN  /\ Install(r.a)
                  /\ Returns(t, r.res)
    /\ UNCHANGED <<last, pre_insert, soft_deleted, lifecycle>>

NextSearchers ==
    build \/ return \/ poison \/ search_enter \/ search_finish \/ thread_return

SpecSearchers == Init /\ [][NextSearchers]_vars

\* ================================================================ claims
Built(a) == a.n2v # EmptyMap
Restrict(m, D) == [x \in D |-> m[x]]

\* C1: after any sequence of build, insert and soft_delete calls,
\* node_to_vector and vector_to_node are inverse bijections: node_to_vector
\* maps N to s exactly when vector_to_node maps s to N, and both maps have
\* the same number of entries.
C1_MapsAreInverse ==
    /\ \A n \in DOMAIN node_to_vector :
           /\ node_to_vector[n] \in DOMAIN vector_to_node
           /\ vector_to_node[node_to_vector[n]] = n
    /\ \A s \in DOMAIN vector_to_node :
           /\ vector_to_node[s] \in DOMAIN node_to_vector
           /\ node_to_vector[vector_to_node[s]] = s
    /\ MapLen(node_to_vector) = MapLen(vector_to_node)

\* C2: an insert on a built index whose batch holds the same (in-range)
\* NodeId twice fails with DuplicateNodeId, writes no mapping and allocates
\* no slot.
C2_InBatchDuplicateRejected ==
    (/\ last.op = "insert"
     /\ Built(last.pre)
     /\ \A i \in DOMAIN last.nodes : last.nodes[i] <= U32_MAX
     /\ ~Injective(last.nodes))
    => /\ last.res = "DuplicateNodeId"
       /\ node_to_vector = last.pre.n2v
       /\ vector_to_node = last.pre.v2n
       /\ next_vector_id = last.pre.next

\* The number of NodeIds of the batch smaller than v: the 0-based position
\* of v among the NodeIds of a duplicate-free batch in increasing order.
Rank(nodes, v) == Cardinality({w \in Range(nodes) : w < v})

\* C3: after build(V) succeeds with |V| = n, whatever the state before,
\* size() = n, mapping_count() = n, next_vector_id = n,
\* stats.vector_count = n, the node with the i-th smallest NodeId of V is
\* mapped to slot i in both directions, and no other mapping exists.
C3_BuildAssignsSortedSlots ==
    (last.op = "build" /\ last.res = "Ok")
    => LET n == Len(last.nodes)
       IN  /\ Injective(last.nodes)
           /\ \A i \in DOMAIN last.nodes : last.nodes[i] <= U32_MAX
           /\ size(Current) = n
           /\ mapping_count(Current) = n
           /\ next_vector_id = n
           /\ stats.vector_count = n
           /\ DOMAIN node_to_vector = Range(last.nodes)
           /\ DOMAIN vector_to_node = 0 .. (n - 1)
           /\ \A v \in Range(last.nodes) :
                  /\ node_to_vector[v] = Rank(last.nodes, v)
                  /\ vector_to_node[Rank(last.nodes, v)] = v

\* A successful build of an unsorted batch over an index that held another
\* node before.
C3_Witness ==
    /\ last.op = "build" /\ last.res = "Ok"
    /\ Len(last.nodes) = 2 /\ last.nodes[1] > last.nodes[2]
    /\ \E n \in DOMAIN last.pre.n2v : n \notin Range(last.nodes)

BuildFailures == {"VertexIdOverflow", "DuplicateNodeId", "BuildError"}

\* C4: a build on non-empty input that fails with VertexIdOverflow,
\* DuplicateNodeId or BuildError leaves both maps empty, size() = 0,
\* next_vector_id = 0 and the stats at their initial values, also when an
\* earlier build had succeeded; an overflowing or repeated NodeId in the
\* input makes the build fail (with one of these two errors, or with the
\* panic of clear_mappings when the stats lock is poisoned).
C4_FailedBuildLeavesNothing ==
    /\ (last.op = "build" /\ last.res \in BuildFailures)
       => /\ node_to_vector = EmptyMap
          /\ vector_to_node = EmptyMap
          /\ size(Current) = 0
          /\ next_vector_id = 0
          /\ stats = IndexStats_new
    /\ (last.op = "build" /\ Len(last.nodes) > 0
            /\ (~Injective(last.nodes) \/ \E i \in DOMAIN last.nodes : last.nodes[i] > U32_MAX))
       => last.res \in IF stats_write_ok(last.pre)
                       THEN {"VertexIdOverflow", "DuplicateNodeId"}
                       ELSE {"panic"}

\* A build that fails on a repeated NodeId, after its first occurrence was
\* mapped, on an index that was built and searched before.
C4_Witness ==
    /\ last.op = "build" /\ last.res = "DuplicateNodeId"
    /\ Built(last.pre) /\ last.pre.next > 0
    /\ last.pre.stats.search_count > 0
    /\ last.pre.stats.vector_count > 0

\* C5: every insert that returns an error leaves node_to_vector,
\* vector_to_node and next_vector_id exactly as they were before the call.
C5_FailedInsertRestores ==
    (last.op = "insert" /\ last.res # "Ok")
    => /\ node_to_vector = last.pre.n2v
       /\ vector_to_node = last.pre.v2n
       /\ next_vector_id = last.pre.next

\* An insert of two new nodes that the inner index rejected, after the
\* mappings were written and the counter advanced.
C5_Witness ==
    /\ last.op = "insert" /\ last.res = "BuildError"
    /\ Len(last.nodes) = 2 /\ Injective(last.nodes)
    /\ last.pre.next > 0

\* C6: a successful insert(W) with W's NodeIds pairwise distinct and not
\* mapped before increases size() by |W|, advances next_vector_id by |W|,
\* maps the i-th element of W in input order to slot base + i (base the
\* counter before the call) and leaves every earlier mapping unchanged.
C6_InsertAppendsInInputOrder ==
    (/\ last.op = "insert" /\ last.res = "Ok"
     /\ Injective(last.nodes)
     /\ Range(last.nodes) \cap DOMAIN last.pre.n2v = {})
    => LET n == Len(last.nodes)
           base == last.pre.next
       IN  /\ size(Current) = size(last.pre) + n
           /\ next_vector_id = base + n
           /\ \A i \in 1 .. n :
                  /\ node_to_vector[last.nodes[i]] = base + (i - 1)
                  /\ vector_to_node[base + (i - 1)] = last.nodes[i]
           /\ DOMAIN node_to_vector = DOMAIN last.pre.n2v \cup Range(last.nodes)
           /\ DOMAIN vector_to_node =
                  DOMAIN last.pre.v2n \cup {base + (i - 1) : i \in 1 .. n}
           /\ \A m \in DOMAIN last.pre.n2v : node_to_vector[m] = last.pre.n2v[m]
           /\ \A s \in DOMAIN last.pre.v2n : vector_to_node[s] = last.pre.v2n[s]

\* A successful insert of two new nodes given in decreasing NodeId order.
C6_Witness ==
    /\ last.op = "insert" /\ last.res = "Ok"
    /\ Len(last.nodes) = 2 /\ last.nodes[1] > last.nodes[2]
    /\ Built(last.pre)

SomeUnmapped(a, node_ids) == \E i \in DOMAIN node_ids : node_ids[i] \notin DOMAIN a.n2v

\* C7 as claimed: a soft_delete naming any id that is not mapped fails with
\* NodeIdNotFound, without calling the inner soft_delete and without
\* removing a mapping; and when the inner soft_delete fails both maps are
\* unchanged.
C7_UnknownIdIsNodeIdNotFound ==
    /\ (last.op = "soft_delete" /\ SomeUnmapped(last.pre, last.nodes))
       => /\ last.res = "NodeIdNotFound"
          /\ inner = last.pre.inner
          /\ node_to_vector = last.pre.n2v
          /\ vector_to_node = last.pre.v2n
    /\ (last.op = "soft_delete" /\ last.res = "DiskANN")
       => /\ node_to_vector = last.pre.n2v
          /\ vector_to_node = last.pre.v2n

\* C7 as amended: on an index whose node_to_vector is not empty, a
\* soft_delete naming any id that is not mapped fails with NodeIdNotFound,
\* without calling the inner soft_delete and without removing a mapping
\* (on an empty node_to_vector it fails with IndexNotBuilt, equally without
\* a change); and when the inner soft_delete fails both maps are unchanged.
C7_SoftDeleteAllOrNothing ==
    /\ (last.op = "soft_delete" /\ SomeUnmapped(last.pre, last.nodes))
       => /\ last.res = IF Built(last.pre) THEN "NodeIdNotFound" ELSE "IndexNotBuilt"
          /\ inner = last.pre.inner
          /\ node_to_vector = last.pre.n2v
          /\ vector_to_node = last.pre.v2n
    /\ (last.op = "soft_delete" /\ last.res = "DiskANN")
       => /\ node_to_vector = last.pre.n2v
          /\ vector_to_node = last.pre.v2n

\* A soft_delete of a mapped id followed by an unknown one.
C7_Witness ==
    /\ last.op = "soft_delete" /\ last.res = "NodeIdNotFound"
    /\ Len(last.nodes) = 2
    /\ last.nodes[1] \in DOMAIN last.pre.n2v
    /\ last.nodes[2] \notin DOMAIN last.pre.n2v

\* C8: a successful soft_delete(D) of distinct mapped NodeIds removes both
\* directions of the mapping of every id of D, decreases size() by |D| and
\* leaves the other mappings and next_vector_id unchanged; and insert(W)
\* followed by soft_delete(W) restores size() and the mappings of all other
\* nodes to what they were before the insert.
C8_SoftDeleteRemovesBothDirections ==
    /\ (/\ last.op = "soft_delete" /\ last.res = "Ok"
        /\ Injective(last.nodes))
       => LET D == Range(last.nodes)
              slots == {last.pre.n2v[d] : d \in D \cap DOMAIN last.pre.n2v}
          IN  /\ D \subseteq DOMAIN last.pre.n2v
              /\ node_to_vector = Restrict(last.pre.n2v, DOMAIN last.pre.n2v \ D)
              /\ vector_to_node = Restrict(last.pre.v2n, DOMAIN last.pre.v2n \ slots)
              /\ size(Current) = size(last.pre) - Cardinality(D)
              /\ next_vector_id = last.pre.next
    /\ (/\ last.op = "soft_delete" /\ last.res = "Ok"
        /\ pre_insert.set /\ pre_insert.age = 1
        /\ Range(last.nodes) = Range(pre_insert.nodes))
       => /\ MapLen(node_to_vector) = MapLen(pre_insert.n2v)
          /\ node_to_vector = pre_insert.n2v
          /\ \A s \in DOMAIN pre_insert.v2n :
                 s \in DOMAIN vector_to_node /\ vector_to_node[s] = pre_insert.v2n[s]

\* insert(W) of two nodes directly followed by a successful soft_delete(W).
C8_Witness ==
    /\ last.op = "soft_delete" /\ last.res = "Ok"
    /\ pre_insert.set /\ pre_insert.age = 1
    /\ Len(last.nodes) = 2 /\ Injective(last.nodes)
    /\ Range(last.nodes) = Range(pre_insert.nodes)

\* C9: between two builds a slot id given to a vector that was later
\* soft-deleted is not assigned again: the slots a successful insert
\* assigns are none of the slots soft-deleted since the last build.
C9_NoSlotReuse ==
    (last.op = "insert" /\ last.res = "Ok")
    => \A s \in DOMAIN vector_to_node :
           (s \notin DOMAIN last.pre.v2n \/ vector_to_node[s] # last.pre.v2n[s])
               => s \notin last.pre.inner.deleted

\* A successful insert on an index that has soft-deleted its highest slot.
C9_Witness ==
    /\ last.op = "insert" /\ last.res = "Ok" /\ Len(last.nodes) > 0
    /\ last.pre.next - 1 \in last.pre.inner.deleted

\* C10: after soft_delete(D) succeeds, no search or ann_search returns a
\* NodeId of D until that NodeId is inserted again or the index is rebuilt.
C10_DeletedNeverReturned ==
    (last.op \in {"search", "ann_search"} /\ last.res = "Ok")
    => Range(last.out) \cap soft_deleted = {}

\* C11: the adapter is unbuilt until a build succeeds and built from then
\* on: before any successful build, insert and soft_delete with non-empty
\* arguments and search / ann_search fail with IndexNotBuilt; after a
\* successful build with no later failed build none of them fails with
\* IndexNotBuilt, whatever inserts and soft_deletes have run since.
C11_BuiltFromFirstBuild ==
    LET asks == \/ last.op \in {"search", "ann_search"}
                \/ last.op \in {"insert", "soft_delete"} /\ Len(last.nodes) > 0
    IN  /\ (asks /\ lifecycle = "never") => last.res = "IndexNotBuilt"
        /\ (asks /\ lifecycle = "built") => last.res # "IndexNotBuilt"

\* What the call in progress left, as a search result.
Got ==
    [Found(Current, last.res, last.err_id, last.out, last.touched)
        EXCEPT !.asked = last.asked]

LivePassing(a, mask) == {c \in Range(mask.cands) : c \in DOMAIN a.v2n}

\* C13: every search returns at most k NodeIds, and a masked search returns
\* exactly k NodeIds whenever at least k live vectors pass the mask, on the
\* brute-force and on the post-filter path, also when the candidates of the
\* mask include slots of soft-deleted vectors.
C13_ResultLength ==
    (last.op \in {"search", "ann_search"} /\ last.res = "Ok")
    => /\ Len(last.out) <= last.k
       /\ (last.mask.some /\ Cardinality(LivePassing(last.pre, last.mask)) >= last.k)
          => Len(last.out) = last.k

\* C14: brute-force search over a mask whose candidates are all live slots
\* returns min(k, number of candidates) NodeIds in non-decreasing order of
\* distance to the query, and the distances of the returned nodes are the
\* min(k, number of candidates) smallest candidate distances, for every
\* iteration order of the candidates.
C14_BruteForceNearestFirst ==
    (/\ last.op = "search" /\ last.mask.some
     /\ candidate_count(last.mask) > 0 /\ last.mask.sel < 100
     /\ Range(last.mask.cands) \subseteq DOMAIN last.pre.v2n)
    => LET cands == Range(last.mask.cands)
           dist == last.env.dist
           m == Min(last.k, candidate_count(last.mask))
       IN  /\ last.res = "Ok"
           /\ Len(last.out) = m
           /\ \E slots \in DistinctSeqs(cands, m) :
                  /\ Len(slots) = m
                  /\ \A i \in 1 .. m : last.out[i] = last.pre.v2n[slots[i]]
                  /\ \A i, j \in 1 .. m : i < j => dist[slots[i]] <= dist[slots[j]]
                  /\ \A c \in cands \ Range(slots) :
                         \A i \in 1 .. m : dist[slots[i]] <= dist[c]

\* A brute-force search for two of three live candidates in which the last
\* candidate scanned is nearer than one already in the full heap.
C14_Witness ==
    /\ last.op = "search" /\ last.mask.some /\ last.mask.sel < 100
    /\ last.k = 2 /\ candidate_count(last.mask) = 3
    /\ Range(last.mask.cands) \subseteq DOMAIN last.pre.v2n
    /\ last.env.dist[last.mask.cands[3]] < last.env.dist[last.mask.cands[1]]
    /\ last.res = "Ok"

\* The result of the search in progress had the stats lock not been poisoned.
Unpoisoned ==
    LET a == [last.pre EXCEPT !.poisoned = FALSE]
    IN  IF last.op = "ann_search" THEN ann_search_call(a, last.k, last.env)
        ELSE search_call(a, last.k, last.mask, last.env)

\* C15: a poisoned stats lock never fails a search: when the lock is
\* poisoned, ann_search, unmasked search, brute-force search and post-filter
\* search still return their normal result and only skip the counter update.
C15_PoisonedLockNeverFails ==
    (last.op \in {"search", "ann_search"} /\ ~stats_write_ok(last.pre))
    => /\ last.res = Unpoisoned.res
       /\ last.out = Unpoisoned.out
       /\ stats = last.pre.stats

\* C16: on a built index a search with k = 0 returns an empty result on
\* every path (no mask, brute force, post-filter) without calling the inner
\* index's search or get_aligned_vector_data and without changing any
\* stats counter.
C16_ZeroKTouchesNothing ==
    (last.op \in {"search", "ann_search"} /\ Built(last.pre) /\ last.k = 0)
    => /\ last.res = "Ok"
       /\ last.out = <<>>
       /\ ~last.touched
       /\ stats = last.pre.stats

\* A masked search with k = 0 over live candidates at a selectivity that
\* takes the post-filter path.
C16_Witness ==
    /\ last.op = "search" /\ Built(last.pre) /\ last.k = 0
    /\ last.mask.some /\ last.mask.sel >= 100
    /\ candidate_count(last.mask) > 0
    /\ Range(last.mask.cands) \subseteq DOMAIN last.pre.v2n

\* The state a successful build(vectors) of a fresh adapter leaves.
AfterBuild(vectors) == build_call(New, vectors, TRUE).a

\* The two adapters agree on node_to_vector, vector_to_node, next_vector_id,
\* stats.vector_count and the search counters.
SameIndex(a, b) ==
    /\ a.n2v = b.n2v
    /\ a.v2n = b.v2n
    /\ a.next = b.next
    /\ a.stats.vector_count = b.stats.vector_count
    /\ a.stats.search_count = b.stats.search_count
    /\ a.stats.brute_force_searches = b.stats.brute_force_searches
    /\ a.stats.post_filter_searches = b.stats.post_filter_searches
    /\ a.stats.pre_filter_searches = b.stats.pre_filter_searches
    /\ a.stats.total_brute_force_candidates = b.stats.total_brute_force_candidates
    /\ a.stats.expansion_factor_count = b.stats.expansion_factor_count

\* C17: build is idempotent on the adapter state: a successful build(V)
\* leaves the same node_to_vector, vector_to_node, next_vector_id,
\* stats.vector_count and search counters whatever the state before it
\* (after inserts, soft_deletes and searches too), and a successful
\* build(V) on the state a build(V) has left leaves them as they were.
C17_BuildTwiceIsBuildOnce ==
    (last.op = "build" /\ last.res = "Ok")
    => /\ SameIndex(Current, AfterBuild(last.nodes))
       /\ SameIndex(last.pre, AfterBuild(last.nodes)) => SameIndex(Current, last.pre)

\* A successful build of an unsorted batch of two on the state a build of
\* the same batch has left.
C17_Witness ==
    /\ last.op = "build" /\ last.res = "Ok"
    /\ Len(last.nodes) = 2 /\ last.nodes[1] > last.nodes[2]
    /\ SameIndex(last.pre, AfterBuild(last.nodes))
    /\ last.pre.inner = AfterBuild(last.nodes).inner

\* C18: the VectorSearch procedure rejects, with an error and before
\* running any vector search, every call that violates one of k > 0,
\* l_value > 0, k <= l_value, query_vector non-empty.
C18_ProcedureValidates ==
    (/\ last.op = "VectorSearch"
     /\ ~(/\ last.k > 0
          /\ last.args.l_value > 0
          /\ last.k <= last.args.l_value
          /\ last.args.query_len > 0))
    => last.res # "Ok" /\ ~last.args.searched

\* The vertex types of the catalog of the call that have the property.
Having == {i \in DOMAIN last.args.graph_type :
               last.args.property_name \in DOMAIN last.args.graph_type[i]}

\* The call of the procedure got to resolve_property_name.
Resolving ==
    /\ last.op = "VectorSearch"
    /\ last.k > 0 /\ last.args.l_value > 0 /\ last.args.has_graph

\* C19: resolve_property_name returns None exactly when no vertex type of
\* the catalog has a property of that name (so for an empty catalog), and
\* otherwise the property id of the first vertex type, in
\* vertex_type_keys() order, that has it; on None the procedure fails with
\* "Property '<name>' not found" and performs no vector search.
C19_ResolveFirstMatch ==
    Resolving
    => /\ ~last.args.property_id.some <=> Having = {}
       /\ Having # {}
          => LET first == CHOOSE i \in Having : \A j \in Having : i <= j
             IN  last.args.property_id.id
                     = last.args.graph_type[first][last.args.property_name]
       /\ Having = {}
          => /\ last.res = "Property not found"
             /\ ~last.args.searched
             /\ Current = last.pre

\* A resolution over a catalog with two vertex types that have the property
\* under different ids, followed by the vector search.
C19_Witness ==
    /\ Resolving
    /\ Cardinality(Having) = 2
    /\ \E i, j \in Having :
           last.args.graph_type[i][last.args.property_name]
               # last.args.graph_type[j][last.args.property_name]
    /\ last.args.searched

\* ceil(2 * (-ln s)) for s = sel / 1000: the least n with s >= e^(-n/2).
ceil_twice_neg_ln(sel) ==
    IF sel >= 1000 THEN 0
    ELSE IF sel >= 607 THEN 1
    ELSE IF sel >= 368 THEN 2
    ELSE IF sel >= 224 THEN 3
    ELSE IF sel >= 136 THEN 4
    ELSE IF sel >= 83 THEN 5
    ELSE IF sel >= 50 THEN 6
    ELSE IF sel >= 31 THEN 7
    ELSE IF sel >= 19 THEN 8
    ELSE IF sel >= 12 THEN 9
    ELSE IF sel >= 7 THEN 10
    ELSE IF sel >= 5 THEN 11
    ELSE IF sel >= 3 THEN 12
    ELSE IF sel >= 2 THEN 13
    ELSE 14

\* clamp(ceil(max(1, 2 * (-ln s))), 2, 50); ceil(max(1, y)) = max(1, ceil(y)).
SpecifiedExpansion(sel) == clamp(Max(1, ceil_twice_neg_ln(sel)), 2, 50)

\* The post-filter search in progress recorded its expansion factor.
Expanded ==
    /\ last.op = "post_filter_search"
    /\ stats.expansion_factor_count = last.pre.stats.expansion_factor_count + 1

\* C20: for every selectivity s in (0, 1] (here every thousandth), the
\* expansion factor post_filter_search computes, ceil(2 * max(1, -ln s))
\* clamped to [2, 50], equals clamp(ceil(max(1, 2 * (-ln s))), 2, 50), is
\* non-increasing in s (no smaller than the factor of the next selectivity
\* up), and is 2 for s = 0.5.
C20_ExpansionFactor ==
    Expanded
    => LET sel == last.mask.sel
           factor == stats.expansion_factor_sum - last.pre.stats.expansion_factor_sum
       IN  /\ factor = SpecifiedExpansion(sel)
           /\ sel < 1000 => expansion_factor(sel + 1) <= factor
           /\ sel = 500 => factor = 2
           /\ stats.max_expansion_factor >= factor
           /\ stats.min_expansion_factor <= factor

\* A post-filter search at a selectivity above e^(-1/2), where
\* max(1, 2 * (-ln s)) rounds up to 1 and only the clamp makes the factor 2.
C20_Witness ==
    /\ Expanded
    /\ last.mask.sel >= 607 /\ last.mask.sel < 1000
    /\ last.k = 2 /\ Len(last.env.found) = 2

\* The search in progress took the post-filter path with k > 0.
PostFiltering ==
    /\ last.op = "search" /\ last.mask.some
    /\ last.pre.v2n # EmptyMap
    /\ candidate_count(last.mask) > 0
    /\ last.mask.sel >= BruteForceBelow
    /\ last.k > 0

\* The NodeIds ann_search made of the slots the inner search returned.
AnnResults == [i \in DOMAIN last.env.found |-> last.pre.v2n[last.env.found[i]]]

\* The ANN results whose slot, resolved through node_to_vector, passes the
\* mask, in the order of the ANN results.
Passing ==
    LET Test(n) == /\ n \in DOMAIN last.pre.n2v
                   /\ contains_vector(last.mask, last.pre.n2v[n])
    IN  SelectSeq(AnnResults, Test)

\* C21: post-filter search with k > 0 asks the inner index for exactly
\* min(k * expansion, size()) results and returns the first k of the ANN
\* results whose slot passes mask.contains_vector, in the order the ANN
\* search returned them; on success it increments search_count and
\* post_filter_searches by 1 each and records the expansion factor once.
C21_PostFilterAsksAndTakes ==
    PostFiltering
    => LET a == last.pre
           factor == SpecifiedExpansion(last.mask.sel)
       IN  /\ last.asked = Min(last.k * factor, size(a))
           /\ last.res = "Ok"
              => /\ last.out = SubSeq(Passing, 1, Min(last.k, Len(Passing)))
                 /\ stats.search_count = a.stats.search_count + 1
                 /\ stats.post_filter_searches = a.stats.post_filter_searches + 1
                 /\ stats.expansion_factor_count = a.stats.expansion_factor_count + 1
                 /\ stats.expansion_factor_sum = a.stats.expansion_factor_sum + factor

\* The positions of the slots the inner search returned that are missing
\* from vector_to_node.
Missing == {i \in DOMAIN last.env.found : last.env.found[i] \notin DOMAIN last.pre.v2n}

\* What C22 says of an ann_search whose inner search returned: a missing
\* slot fails the call with VectorIdNotFound for the first such slot, with
\* no result and no count; otherwise the NodeIds of the slots come back in
\* the inner index's order and search_count alone grows, by 1.
MapsOrFails ==
    LET a == last.pre
        found == last.env.found
    IN  /\ Missing # {}
           => /\ last.res = "VectorIdNotFound"
              /\ last.err_id = found[CHOOSE i \in Missing : \A j \in Missing : i <= j]
              /\ last.out = <<>>
              /\ stats = a.stats
        /\ Missing = {}
           => /\ last.res = "Ok"
              /\ last.out = [i \in DOMAIN found |-> a.v2n[found[i]]]
              /\ stats = [a.stats EXCEPT !.search_count = @ + 1]

C24_CounterAboveSlots ==
    last.op \in {"build", "insert", "soft_delete"}
    => \A s \in DOMAIN vector_to_node : s < next_vector_id

\* An insert of two vectors that the inner index rejected, so that the
\* counter was rewound onto the slot after the highest mapped one.
C24_Witness ==
    /\ last.op = "insert" /\ last.res = "BuildError" /\ Len(last.nodes) = 2
    /\ next_vector_id - 1 \in DOMAIN vector_to_node
    /\ next_vector_id = last.pre.next

\* The slots an inserter was given by its fetch_add.
SlotRange(t) == threads[t].base .. (threads[t].base + Len(threads[t].vectors) - 1)

\* The inserter holds its slot range: its insert is in flight past the
\* fetch_add and has not rewound the counter, or it has returned Ok and its
\* vectors are in the index.
Holds(t) ==
    \/ threads[t].pc \in {"allocated", "written", "failed", "unmapped"}
    \/ threads[t].pc = "returned" /\ Len(threads[t].vectors) > 0

C25_StatsConsistent ==
    LET count == stats.expansion_factor_count
        least == stats.min_expansion_factor
        most == stats.max_expansion_factor
    IN  /\ count = stats.post_filter_searches
        /\ stats.post_filter_searches <= stats.search_count
        /\ stats.pre_filter_searches = 0
        /\ count > 0
           => /\ 2 <= least /\ least <= most /\ most <= 50
              /\ count * least <= stats.expansion_factor_sum
              /\ stats.expansion_factor_sum <= count * most
        /\ least = USIZE_MAX <=> count = 0

\* Two post-filter searches have recorded different expansion factors and a
\* third is between its ann_search and its own stats update.
C25_Witness ==
    /\ stats.expansion_factor_count = 2
    /\ stats.min_expansion_factor < stats.max_expansion_factor
    /\ stats.search_count = 3
    /\ \E t \in Threads : threads[t].pc = "filtering"

====
